---- MODULE Spec2Model ----
(***************************************************************************)
(* Model of the vibe-loc WiFi scanners (wifi_scanner_linux.py,             *)
(* wifi_scanner_windows.py, wifi_scanner_termux.py): the output parsers,   *)
(* the Linux scanner facade, and the main / MQTT publish loop.             *)
(*                                                                         *)
(* Text is modelled as a sequence of one-character strings, a Python value *)
(* as a tagged record, a Python dict as a function whose domain is the set *)
(* of keys present.                                                        *)
(***************************************************************************)
EXTENDS Integers, Sequences, FiniteSets, TLC

VARIABLES platform, mqtt, once, pc, exc, exitCode, connected, loopRunning,
          loopStarts, loopStops, disconnects, connack, connectFailed,
          capabilityMissing, scans, waits, interrupts, env, scan, networks,
          published, diag, listed

vars == <<platform, mqtt, once, pc, exc, exitCode, connected, loopRunning,
          loopStarts, loopStops, disconnects, connack, connectFailed,
          capabilityMissing, scans, waits, interrupts, env, scan, networks,
          published, diag, listed>>

(* ------------------------------ bounds --------------------------------- *)
MaxLines == 3
MaxCycles == 2
MaxInterrupts == 1

(* --------------------------- Python values ----------------------------- *)
None == [t |-> "None"]
PyInt(n) == [t |-> "int", v |-> n]
PyStr(s) == [t |-> "str", v |-> s]

\* truth value of a Python object (None, 0 and "" are false)
Truthy(x) ==
    CASE x.t = "None" -> FALSE
      [] x.t = "int" -> x.v # 0
      [] x.t = "str" -> x.v # <<>>

\* dict.get(key, default)
Get(d, k, default) == IF k \in DOMAIN d THEN d[k] ELSE default

Hidden == <<"<", "H", "i", "d", "d", "e", "n", ">">>

(* ------------------------------ text ----------------------------------- *)
Digits == {"0", "1", "2", "3", "4", "5", "6", "7", "8", "9"}

DigitVal(c) ==
    CASE c = "0" -> 0 [] c = "1" -> 1 [] c = "2" -> 2 [] c = "3" -> 3
      [] c = "4" -> 4 [] c = "5" -> 5 [] c = "6" -> 6 [] c = "7" -> 7
      [] c = "8" -> 8 [] c = "9" -> 9

\* str.isdigit(): non-empty and every character a digit
IsDigit(s) == Len(s) > 0 /\ \A i \in 1..Len(s) : s[i] \in Digits

RECURSIVE ToInt(_)
\* int(s) for a string of decimal digits
ToInt(s) ==
    IF s = <<>> THEN 0
    ELSE 10 * ToInt(SubSeq(s, 1, Len(s) - 1)) + DigitVal(s[Len(s)])

LowerChar(c) ==
    CASE c = "A" -> "a" [] c = "B" -> "b" [] c = "C" -> "c"
      [] c = "D" -> "d" [] c = "E" -> "e" [] c = "F" -> "f"
      [] OTHER -> c

\* str.lower()
Lower(s) == [i \in 1..Len(s) |-> LowerChar(s[i])]

\* str.strip() leaves nothing: the line is empty or all blanks
IsBlank(s) == \A i \in 1..Len(s) : s[i] = " "

IsPrefix(p, s) == Len(p) <= Len(s) /\ SubSeq(s, 1, Len(p)) = p

RECURSIVE ReplaceAll(_, _, _)
\* str.replace(pat, rep): leftmost, non-overlapping occurrences
ReplaceAll(s, pat, rep) ==
    IF s = <<>> THEN <<>>
    ELSE IF IsPrefix(pat, s)
         THEN rep \o ReplaceAll(SubSeq(s, Len(pat) + 1, Len(s)), pat, rep)
         ELSE <<s[1]>> \o ReplaceAll(Tail(s), pat, rep)

RECURSIVE SplitFrom(_, _, _)
SplitFrom(s, sep, cur) ==
    IF s = <<>> THEN <<cur>>
    ELSE IF s[1] = sep THEN <<cur>> \o SplitFrom(Tail(s), sep, <<>>)
         ELSE SplitFrom(Tail(s), sep, Append(cur, s[1]))

\* str.split(sep) for a one-character separator
Split(s, sep) == SplitFrom(s, sep, <<>>)

(* ------------------------------ dicts ---------------------------------- *)
EmptyDict == [k \in {} |-> None]

\* d[k] = v
Put(d, k, v) == [x \in (DOMAIN d) \cup {k} |-> IF x = k THEN v ELSE d[x]]

\* the outcome of a call: a list of records, or the exception it raised
Ok(nets) == [exc |-> "none", nets |-> nets]
Raise(e) == [exc |-> e, nets |-> <<>>]

(* ---------------- Linux: nmcli terse parser (one line, one record) ----- *)
Placeholder == <<"#", "#", "C", "O", "L", "O", "N", "#", "#">>

\* the records one line of `nmcli -t -f SSID,BSSID,SIGNAL,CHAN` adds
NmcliLine(line) ==
    IF IsBlank(line) THEN <<>>
    ELSE LET line_clean == ReplaceAll(line, <<"\\", ":">>, Placeholder)
             parts == Split(line_clean, ":")
         IN  IF Len(parts) >= 4
             THEN LET ssid == ReplaceAll(parts[1], Placeholder, <<":">>)
                      bssid == Lower(ReplaceAll(parts[2], Placeholder, <<":">>))
                      signal == parts[3]
                      channel == parts[4]
                  IN  << [ssid |-> IF ssid # <<>> THEN PyStr(ssid)
                                                  ELSE PyStr(Hidden),
                          bssid |-> PyStr(bssid),
                          signal |-> IF IsDigit(signal)
                                     THEN PyInt(ToInt(signal)) ELSE None,
                          channel |-> IF IsDigit(channel)
                                      THEN PyInt(ToInt(channel)) ELSE None] >>
             ELSE <<>>

RECURSIVE ParseNmcli(_)
\* the loop over result.stdout.splitlines() of get_wifi_bssids_nmcli
ParseNmcli(lines) ==
    IF lines = <<>> THEN <<>>
    ELSE NmcliLine(Head(lines)) \o ParseNmcli(Tail(lines))

(* ---------------- Linux: iwlist cell-block parser ---------------------- *)
(* A line is given by the branch of the if/elif chain it takes and by what *)
(* the branch's regular expression captures:                               *)
(*   [k |-> "Cell", addr]      addr = <<>> when Address: does not match    *)
(*   [k |-> "Channel", num]    num = <<>> when Channel:(\d+) does not match*)
(*   [k |-> "Signal", form, neg, num, den]   form in dbm / ratio / none    *)
(*   [k |-> "ESSID", m, name]  m = the ESSID:"..." pattern matched         *)
(*   [k |-> "other"]                                                       *)

\* max(0, min(100, 2 * (dbm + 100)))
IwlistDbmSignal(dbm) ==
    LET q == 2 * (dbm + 100)
        lo == IF q < 100 THEN q ELSE 100
    IN  IF lo > 0 THEN lo ELSE 0

\* int(100 * n / d) for non-negative n and positive d
IwlistRatioSignal(n, d) == (100 * n) \div d

\* flush: append the accumulator when it holds an identifier
FlushIfBssid(nets, cur) ==
    IF Truthy(Get(cur, "bssid", None)) THEN Append(nets, cur) ELSE nets

\* one iteration of the loop body; st = [nets, cur, exc]
IwlistStep(st, line) ==
    IF st.exc # "none" THEN st
    ELSE CASE line.k = "Cell" ->
                [st EXCEPT !.nets = FlushIfBssid(st.nets, st.cur),
                           !.cur = IF line.addr # <<>>
                                   THEN Put(EmptyDict, "bssid",
                                            PyStr(Lower(line.addr)))
                                   ELSE EmptyDict]
           [] line.k = "Channel" ->
                IF line.num # <<>>
                THEN [st EXCEPT !.cur = Put(st.cur, "channel",
                                            PyInt(ToInt(line.num)))]
                ELSE st
           [] line.k = "Signal" ->
                IF line.form = "dbm"
                THEN LET dbm == IF line.neg THEN 0 - ToInt(line.num)
                                            ELSE ToInt(line.num)
                     IN  [st EXCEPT !.cur = Put(st.cur, "signal",
                                                PyInt(IwlistDbmSignal(dbm)))]
                ELSE IF line.form = "ratio"
                THEN IF ToInt(line.den) = 0
                     THEN [st EXCEPT !.exc = "ZeroDivisionError"]
                     ELSE [st EXCEPT !.cur =
                              Put(st.cur, "signal",
                                  PyInt(IwlistRatioSignal(ToInt(line.num),
                                                          ToInt(line.den))))]
                ELSE st
           [] line.k = "ESSID" ->
                IF line.m
                THEN [st EXCEPT !.cur = Put(st.cur, "ssid",
                                            IF line.name # <<>>
                                            THEN PyStr(line.name)
                                            ELSE PyStr(Hidden))]
                ELSE st
           [] OTHER -> st

RECURSIVE IwlistFold(_, _)
IwlistFold(st, lines) ==
    IF lines = <<>> THEN st
    ELSE IwlistFold(IwlistStep(st, Head(lines)), Tail(lines))

\* the parsing part of get_wifi_bssids_iwlist
ParseIwlist(lines) ==
    LET st == IwlistFold([nets |-> <<>>, cur |-> EmptyDict, exc |-> "none"],
                         lines)
    IN  IF st.exc # "none" THEN Raise(st.exc)
        ELSE Ok(FlushIfBssid(st.nets, st.cur))

(* ---------------- Windows: netsh block parser -------------------------- *)
(*   [k |-> "SSID", name]      name = <<>> when SSID ... : (.+) fails      *)
(*   [k |-> "BSSID", addr]     addr = <<>> when the address does not match *)
(*   [k |-> "Signal", num]     num = <<>> when : (\d+)% does not match     *)
(*   [k |-> "Channel", num]    num = <<>> when : (\d+) does not match      *)
(*   [k |-> "other"]                                                       *)

\* NetshStep with the fault of overwriting the identifier of the accumulator
\* instead of flushing it first
NetshStepOverwrite(st, line) ==
    CASE line.k = "SSID" ->
            LET flushed == Truthy(Get(st.cur, "bssid", None))
                nets1 == IF flushed THEN Append(st.nets, st.cur) ELSE st.nets
                cur1 == IF flushed THEN EmptyDict ELSE st.cur
            IN  [nets |-> nets1,
                 cur |-> IF line.name # <<>>
                         THEN Put(cur1, "ssid", PyStr(line.name)) ELSE cur1]
      [] line.k = "BSSID" ->
            IF line.addr # <<>>
            THEN [nets |-> st.nets,
                  cur |-> Put(st.cur, "bssid", PyStr(Lower(line.addr)))]
            ELSE st
      [] line.k = "Signal" ->
            IF line.num # <<>>
            THEN [st EXCEPT !.cur = Put(st.cur, "signal",
                                        PyInt(ToInt(line.num)))]
            ELSE st
      [] line.k = "Channel" ->
            IF line.num # <<>>
            THEN [st EXCEPT !.cur = Put(st.cur, "channel",
                                        PyInt(ToInt(line.num)))]
            ELSE st
      [] OTHER -> st

\* one iteration of the loop body; st = [nets, cur]
NetshStep(st, line) ==
    CASE line.k = "SSID" ->
            LET flushed == Truthy(Get(st.cur, "bssid", None))
                nets1 == IF flushed THEN Append(st.nets, st.cur) ELSE st.nets
                cur1 == IF flushed THEN EmptyDict ELSE st.cur
            IN  [nets |-> nets1,
                 cur |-> IF line.name # <<>>
                         THEN Put(cur1, "ssid", PyStr(line.name)) ELSE cur1]
      [] line.k = "BSSID" ->
            IF line.addr # <<>>
            THEN [nets |-> IF Truthy(Get(st.cur, "bssid", None))
                           THEN Append(st.nets, st.cur) ELSE st.nets,
                  cur |-> Put(st.cur, "bssid", PyStr(Lower(line.addr)))]
            ELSE st
      [] line.k = "Signal" ->
            IF line.num # <<>>
            THEN [st EXCEPT !.cur = Put(st.cur, "signal",
                                        PyInt(ToInt(line.num)))]
            ELSE st
      [] line.k = "Channel" ->
            IF line.num # <<>>
            THEN [st EXCEPT !.cur = Put(st.cur, "channel",
                                        PyInt(ToInt(line.num)))]
            ELSE st
      [] OTHER -> st

RECURSIVE NetshFold(_, _)
NetshFold(st, lines) ==
    IF lines = <<>> THEN st
    ELSE NetshFold(NetshStep(st, Head(lines)), Tail(lines))

\* the parsing part of the Windows get_wifi_bssids
ParseNetsh(lines) ==
    LET st == NetshFold([nets |-> <<>>, cur |-> EmptyDict], lines)
    IN  IF Truthy(Get(st.cur, "bssid", None)) THEN Append(st.nets, st.cur)
        ELSE st.nets

(* ---------------- Termux: JSON parser and normalizers ------------------ *)
\* a dbm_to_percent that rounds to nearest instead of truncating
dbm_to_percent_Rounded(rssi) ==
    IF rssi.t # "int" THEN [exc |-> "TypeError", val |-> None]
    ELSE IF rssi.v >= -30 THEN [exc |-> "none", val |-> PyInt(100)]
    ELSE IF rssi.v <= -90 THEN [exc |-> "none", val |-> PyInt(0)]
    ELSE [exc |-> "none", val |-> PyInt((100 * (rssi.v + 90) + 30) \div 60)]

\* dbm_to_percent; a value that is not a number makes the comparison raise
dbm_to_percent(rssi) ==
    IF rssi.t # "int" THEN [exc |-> "TypeError", val |-> None]
    ELSE IF rssi.v >= -30 THEN [exc |-> "none", val |-> PyInt(100)]
    ELSE IF rssi.v <= -90 THEN [exc |-> "none", val |-> PyInt(0)]
    ELSE [exc |-> "none", val |-> PyInt((100 * (rssi.v + 90)) \div 60)]

\* a freq_to_channel without the special case of 2484 MHz
freq_to_channel_NoSpecial(freq_mhz) ==
    IF freq_mhz.t # "int" THEN [exc |-> "TypeError", val |-> None]
    ELSE LET f == freq_mhz.v
         IN  IF 2412 <= f /\ f <= 2484
             THEN [exc |-> "none", val |-> PyInt((f - 2412) \div 5 + 1)]
             ELSE IF 5170 <= f /\ f <= 5825
             THEN [exc |-> "none", val |-> PyInt((f - 5170) \div 5 + 34)]
             ELSE IF 5955 <= f /\ f <= 7115
             THEN [exc |-> "none", val |-> PyInt((f - 5955) \div 5 + 1)]
             ELSE [exc |-> "none", val |-> None]

\* freq_to_channel
freq_to_channel(freq_mhz) ==
    IF freq_mhz.t # "int" THEN [exc |-> "TypeError", val |-> None]
    ELSE LET f == freq_mhz.v
         IN  IF 2412 <= f /\ f <= 2484
             THEN [exc |-> "none",
                   val |-> IF f = 2484 THEN PyInt(14)
                           ELSE PyInt((f - 2412) \div 5 + 1)]
             ELSE IF 5170 <= f /\ f <= 5825
             THEN [exc |-> "none", val |-> PyInt((f - 5170) \div 5 + 34)]
             ELSE IF 5955 <= f /\ f <= 7115
             THEN [exc |-> "none", val |-> PyInt((f - 5955) \div 5 + 1)]
             ELSE [exc |-> "none", val |-> None]

\* the dict built for one element of the JSON array; the fields are
\* evaluated in source order, the first exception wins
TermuxRecord(ap) ==
    IF "t" \in DOMAIN ap
    THEN [exc |-> "AttributeError", rec |-> EmptyDict]   \* not an object
    ELSE LET ssid == Get(ap, "ssid", PyStr(<<>>))
             bssid == Get(ap, "bssid", PyStr(<<>>))
             sig == dbm_to_percent(Get(ap, "rssi", PyInt(-100)))
             chan == freq_to_channel(Get(ap, "frequency_mhz", PyInt(0)))
         IN  IF bssid.t # "str"
             THEN [exc |-> "AttributeError", rec |-> EmptyDict]
             ELSE IF sig.exc # "none"
             THEN [exc |-> sig.exc, rec |-> EmptyDict]
             ELSE IF chan.exc # "none"
             THEN [exc |-> chan.exc, rec |-> EmptyDict]
             ELSE [exc |-> "none",
                   rec |-> [ssid |-> IF Truthy(ssid) THEN ssid
                                     ELSE PyStr(Hidden),
                            bssid |-> PyStr(Lower(bssid.v)),
                            signal |-> sig.val,
                            rssi_dbm |-> Get(ap, "rssi", None),
                            channel |-> chan.val,
                            frequency_mhz |-> Get(ap, "frequency_mhz", None)]]

RECURSIVE TermuxItems(_, _)
\* for ap in scan_results: networks.append(network)
TermuxItems(items, nets) ==
    IF items = <<>> THEN Ok(nets)
    ELSE LET r == TermuxRecord(Head(items))
         IN  IF r.exc # "none" THEN Raise(r.exc)
             ELSE TermuxItems(Tail(items), Append(nets, r.rec))

(* The tool's run: [exc, returncode, out].  out is the JSON text as parsed *)
(* by json.loads:  [j |-> "invalid"] (not JSON), [j |-> "empty"] (the      *)
(* empty text, not JSON either), [j |-> "array", items],                   *)
(* [j |-> "object", keys], [j |-> "number"].                               *)
termux_get_wifi_bssids(run) ==
    LET body ==
          IF run.exc # "none" THEN Raise(run.exc)
          ELSE IF run.returncode # 0 THEN Raise("RuntimeError")
          ELSE IF run.out.j \in {"invalid", "empty"}
          THEN Raise("JSONDecodeError")
          ELSE IF run.out.j = "object" /\ "error" \in run.out.keys
          THEN Raise("RuntimeError")
          ELSE IF run.out.j = "object"
          THEN (IF run.out.keys = {} THEN Ok(<<>>)
                ELSE Raise("AttributeError"))     \* iterates over the keys
          ELSE IF run.out.j = "number" THEN Raise("TypeError")
          ELSE TermuxItems(run.out.items, <<>>)
        r == IF body.exc \in {"TimeoutExpired", "JSONDecodeError",
                              "FileNotFoundError"}
             THEN Raise("RuntimeError") ELSE body
    IN  [exc |-> r.exc, nets |-> r.nets, invoked |-> <<"termux">>]

(* ---------------- Windows: get_wifi_bssids ----------------------------- *)
\* run = [exc, stdout]: subprocess.run(..., check=True) raised exc, or
\* completed with the lines stdout
windows_get_wifi_bssids(run) ==
    IF run.exc # "none"
    THEN [exc |-> run.exc, nets |-> <<>>, invoked |-> <<"netsh">>]
    ELSE [exc |-> "none", nets |-> ParseNetsh(run.stdout),
          invoked |-> <<"netsh">>]

(* ---------------- Linux: scanners and facade --------------------------- *)
(* e = [which_nmcli, rescan, list, which_iwlist, iw]: rescan is the        *)
(* outcome of the rescan trigger, list the run of the list command, iw the *)
(* run of `iwlist <iface> scan` for every interface name.                  *)
\* a get_wifi_bssids_nmcli in which only a successful trigger lets the
\* list command run
get_wifi_bssids_nmcli_RescanFatal(e) ==
    IF e.rescan # "ok" THEN Raise(e.rescan)
    ELSE IF e.list.exc # "none" THEN Raise(e.list.exc)
    ELSE Ok(ParseNmcli(e.list.stdout))

get_wifi_bssids_nmcli(e) ==
    IF e.rescan \notin {"ok", "nonzero", "CalledProcessError",
                        "TimeoutExpired"}
    THEN Raise(e.rescan)
    ELSE IF e.list.exc # "none" THEN Raise(e.list.exc)
    ELSE Ok(ParseNmcli(e.list.stdout))

get_wifi_bssids_iwlist(run) ==
    IF run.exc # "none" THEN Raise(run.exc) ELSE ParseIwlist(run.stdout)

Ifaces == <<"wlan0", "wlp2s0", "wlp3s0", "wifi0">>

NoTool == [exc |-> "RuntimeError", nets |-> <<>>]

RECURSIVE TryIwlist(_, _, _)
\* for iface in [...]: try: return get_wifi_bssids_iwlist(iface)
TryIwlist(e, i, invoked) ==
    IF i > Len(Ifaces) THEN NoTool @@ [invoked |-> invoked]
    ELSE LET r == get_wifi_bssids_iwlist(e.iw[Ifaces[i]])
             inv == Append(invoked, Ifaces[i])
         IN  IF r.exc = "CalledProcessError" THEN TryIwlist(e, i + 1, inv)
             ELSE r @@ [invoked |-> inv]

\* after the nmcli candidate
AfterNmcli(e, invoked) ==
    IF e.which_iwlist THEN TryIwlist(e, 1, invoked)
    ELSE NoTool @@ [invoked |-> invoked]

\* linux_get_wifi_bssids with the fault of treating an empty nmcli list as
\* a failure and going on to iwlist
linux_get_wifi_bssids_EmptyFails(e) ==
    IF e.which_nmcli
    THEN LET r == get_wifi_bssids_nmcli(e)
         IN  IF r.exc = "CalledProcessError"
                \/ (r.exc = "none" /\ r.nets = <<>>)
             THEN AfterNmcli(e, <<"nmcli">>)
             ELSE r @@ [invoked |-> <<"nmcli">>]
    ELSE AfterNmcli(e, <<>>)

linux_get_wifi_bssids(e) ==
    IF e.which_nmcli
    THEN LET r == get_wifi_bssids_nmcli(e)
         IN  IF r.exc = "CalledProcessError" THEN AfterNmcli(e, <<"nmcli">>)
             ELSE r @@ [invoked |-> <<"nmcli">>]
    ELSE AfterNmcli(e, <<>>)

\* the platform's get_wifi_bssids on the tool environment en
get_wifi_bssids(p, en) ==
    CASE p = "linux" -> linux_get_wifi_bssids(en)
      [] p = "windows" -> windows_get_wifi_bssids(en)
      [] p = "termux" -> termux_get_wifi_bssids(en)

(* ---------------- Presenter: the in-place sort of print_networks ------- *)
\* key=lambda x: x.get('signal') or 0   (Termux: x.get('signal', 0))
SortKey(p, net) ==
    LET sv == Get(net, "signal", IF p = "termux" THEN PyInt(0) ELSE None)
    IN  IF Truthy(sv) THEN sv.v ELSE 0

RECURSIVE InsertDesc(_, _, _)
\* x goes behind every element whose key is at least its own
InsertDesc(p, sorted, x) ==
    IF sorted = <<>> THEN <<x>>
    ELSE IF SortKey(p, Head(sorted)) >= SortKey(p, x)
         THEN <<Head(sorted)>> \o InsertDesc(p, Tail(sorted), x)
         ELSE <<x>> \o sorted

RECURSIVE SortFold(_, _, _)
SortFold(p, sorted, rest) ==
    IF rest = <<>> THEN sorted
    ELSE SortFold(p, InsertDesc(p, sorted, Head(rest)), Tail(rest))

\* a descending sort that reverses the records of equal signal
SortedBySignal_TiesReversed(p, nets) ==
    SortFold(p, <<>>, [i \in 1..Len(nets) |-> nets[Len(nets) + 1 - i]])

\* networks.sort(key=..., reverse=True): stable, descending
SortedBySignal(p, nets) == SortFold(p, <<>>, nets)

\* formatting a row raises: a None channel (or Termux frequency) meets a
\* width specification, f"{channel:<8}"
RowRaises(p, net) ==
    \/ Get(net, "channel", PyStr(<<"N", "/", "A">>)).t = "None"
    \/ p = "termux" /\ Get(net, "frequency_mhz", PyStr(<<"-", "-">>)).t = "None"

\* print_networks(networks): the list after the call, the rows printed, and
\* the exception raised; an empty list is reported and left alone
print_networks(p, nets) ==
    IF nets = <<>> THEN [exc |-> "none", nets |-> nets, listed |-> <<>>]
    ELSE LET sorted == SortedBySignal(p, nets)
             bad == {i \in 1..Len(sorted) : RowRaises(p, sorted[i])}
             first == CHOOSE i \in bad : \A j \in bad : i <= j
         IN  IF bad = {}
             THEN [exc |-> "none", nets |-> sorted, listed |-> sorted]
             ELSE [exc |-> "TypeError", nets |-> sorted,
                   listed |-> SubSeq(sorted, 1, first - 1)]

(* ---------------- exception handlers ----------------------------------- *)
\* the except clause around the scan inside the publish loop
LoopCatches(p, e) == IF p = "windows" THEN TRUE ELSE e = "RuntimeError"

\* the except clauses around the scan of the plain scan mode in main
MainCatches(p, e) ==
    CASE p = "linux" -> e \in {"PermissionError", "RuntimeError"}
      [] p = "windows" -> e \in {"FileNotFoundError", "CalledProcessError"}
      [] p = "termux" -> e = "RuntimeError"

Device(p) ==
    CASE p = "linux" -> "linux"
      [] p = "windows" -> "windows"
      [] p = "termux" -> "android-termux"

\* an envelope whose networks are in the order of the printed summary
Envelope_Sorted(p, nets) ==
    [device |-> Device(p), count |-> Len(nets),
     networks |-> SortedBySignal(p, nets)]

\* payload = {'timestamp': ..., 'device': ..., 'count': ..., 'networks': ...}
Envelope(p, nets) == [device |-> Device(p), count |-> Len(nets),
                      networks |-> nets]

(* ---------------- tool outputs the scans are run on -------------------- *)
AddrUpper == <<"A", "A", ":", "0", "1">>
AddrLower == <<"b", "b", ":", "0", "2">>
NameNet == <<"N", "e", "t">>
NameColon == <<"N", ":", "w">>
T80 == <<"8", "0">>
T150 == <<"1", "5", "0">>
T6 == <<"6">>

RECURSIVE SeqsUpTo(_, _)
\* the sequences over S of length at most n
SeqsUpTo(S, n) ==
    IF n = 0 THEN {<<>>}
    ELSE LET shorter == SeqsUpTo(S, n - 1)
         IN  shorter \cup {Append(q, x) : q \in shorter, x \in S}

\* nmcli -t output: the fields joined by ':', a ':' inside a field escaped
Escape(f) == ReplaceAll(f, <<":">>, <<"\\", ":">>)
NmcliFieldLines ==
    { Escape(f1) \o <<":">> \o Escape(f2) \o <<":">> \o f3 \o <<":">> \o f4 :
        f1 \in {<<>>, NameColon}, f2 \in {<<>>, AddrUpper},
        f3 \in {<<>>, T80, T150}, f4 \in {T6, <<"x">>} }
\* a line whose name field is the text ##COLON##
PlaceholderLine ==
    Placeholder \o <<":">> \o Escape(AddrLower) \o <<":">> \o T80
    \o <<":">> \o T6
NmcliLines ==
    NmcliFieldLines
    \cup {<<>>, <<" ">>, NameNet \o <<":">> \o T80, PlaceholderLine}
MaxNmcliLines == 2
NmcliOutputs == SeqsUpTo(NmcliLines, MaxNmcliLines)

IwlistLines ==
    {[k |-> "Cell", addr |-> a] : a \in {<<>>, AddrUpper, AddrLower}}
    \cup {[k |-> "Channel", num |-> n] : n \in {<<>>, T6}}
    \cup {[k |-> "Signal", form |-> "dbm", neg |-> b, num |-> n, den |-> <<>>] :
            b \in BOOLEAN, n \in {<<"4", "0">>, <<"9", "5">>}}
    \cup {[k |-> "Signal", form |-> "ratio", neg |-> FALSE, num |-> r[1],
           den |-> r[2]] :
            r \in {<<<<"5">>, <<"0">>>>, <<<<"4", "6">>, <<"7", "0">>>>,
                   <<T80, <<"7", "0">>>>}}
    \cup {[k |-> "Signal", form |-> "none", neg |-> FALSE, num |-> <<>>,
           den |-> <<>>]}
    \cup {[k |-> "ESSID", m |-> FALSE, name |-> <<>>]}
    \cup {[k |-> "ESSID", m |-> TRUE, name |-> n] : n \in {<<>>, NameNet}}
    \cup {[k |-> "other"]}
IwlistOutputs == SeqsUpTo(IwlistLines, MaxLines)

NetshLines ==
    {[k |-> "SSID", name |-> n] : n \in {<<>>, NameNet}}
    \cup {[k |-> "BSSID", addr |-> a] : a \in {<<>>, AddrUpper, AddrLower}}
    \cup {[k |-> "Signal", num |-> n] : n \in {<<>>, T80, T150}}
    \cup {[k |-> "Channel", num |-> n] : n \in {<<>>, T6}}
    \cup {[k |-> "other"]}
NetshOutputs == SeqsUpTo(NetshLines, MaxLines)

Absent == [t |-> "absent"]    \* marks a key the object does not have
\* a dict holding the keys of present, each with its value in vals
Obj(present, vals) == [k \in present |-> vals[k]]
TermuxObjects ==
    { Obj({k \in {"ssid", "bssid", "rssi", "frequency_mhz"} : v[k] # Absent},
          v) :
        v \in [ssid : {Absent, PyStr(<<>>), PyStr(NameNet)},
               bssid : {Absent, None, PyStr(AddrUpper)},
               rssi : {Absent, None, PyInt(-60)},
               frequency_mhz : {Absent, PyInt(2412)}] }
MaxAps == 2
TermuxJson ==
    {[j |-> "array", items |-> q] :
        q \in SeqsUpTo(TermuxObjects \cup {PyStr(NameNet)}, MaxAps)}
    \cup {[j |-> "object", keys |-> ks] :
            ks \in {{}, {"error"}, {"API_ERROR"}}}
    \cup {[j |-> "invalid"], [j |-> "empty"], [j |-> "number"]}

(* runs of the tools *)
Completed(out) == [exc |-> "none", stdout |-> out]
Failed(e) == [exc |-> e, stdout |-> <<>>]
LaunchErrors == {"FileNotFoundError", "PermissionError"}

OneCell == <<[k |-> "Cell", addr |-> AddrUpper]>>
OneNmcli == <<NameNet \o <<":">> \o Escape(AddrUpper) \o <<":">> \o T80
              \o <<":">> \o T6>>

\* Linux environments that exercise the facade's candidate selection
FacadeEnvs ==
    [which_nmcli : BOOLEAN,
     rescan : {"ok", "nonzero", "TimeoutExpired", "PermissionError"},
     list : {Failed("CalledProcessError"), Failed("PermissionError"),
             Completed(<<>>), Completed(OneNmcli)},
     which_iwlist : BOOLEAN,
     iw : [{"wlan0", "wlp2s0", "wlp3s0", "wifi0"} ->
             {Failed("CalledProcessError"), Failed("PermissionError"),
              Completed(<<>>), Completed(OneCell)}]]

\* Linux environments that exercise one parser on every bounded output
NmcliEnv(out) ==
    [which_nmcli |-> TRUE, rescan |-> "ok", list |-> Completed(out),
     which_iwlist |-> FALSE,
     iw |-> [i \in {"wlan0", "wlp2s0", "wlp3s0", "wifi0"} |->
               Failed("CalledProcessError")]]
IwlistEnv(out) ==
    [which_nmcli |-> FALSE, rescan |-> "ok",
     list |-> Failed("CalledProcessError"), which_iwlist |-> TRUE,
     iw |-> [i \in {"wlan0", "wlp2s0", "wlp3s0", "wifi0"} |->
               IF i = "wlan0" THEN Completed(out)
               ELSE Failed("CalledProcessError")]]

LinuxEnvs ==
    FacadeEnvs \cup {NmcliEnv(o) : o \in NmcliOutputs}
               \cup {IwlistEnv(o) : o \in IwlistOutputs}

WindowsEnvs ==
    {Completed(o) : o \in NetshOutputs}
    \cup {Failed(e) : e \in LaunchErrors \cup {"CalledProcessError"}}

TermuxEnvs ==
    {[exc |-> "none", returncode |-> 0, out |-> j] : j \in TermuxJson}
    \cup {[exc |-> "none", returncode |-> 1, out |-> [j |-> "invalid"]]}
    \cup {[exc |-> e, returncode |-> 0, out |-> [j |-> "invalid"]] :
            e \in LaunchErrors \cup {"TimeoutExpired"}}

Envs(p) ==
    CASE p = "linux" -> LinuxEnvs
      [] p = "windows" -> WindowsEnvs
      [] p = "termux" -> TermuxEnvs

(* ======================= the program: main ============================= *)
NoEnv == [exc |-> "unset"]
NoScan == [exc |-> "unset", nets |-> <<>>, invoked |-> <<>>]

\* the tool environments the program's scans meet
LinuxRunEnvs ==
    {NmcliEnv(<<NameNet \o <<":", ":">> \o T80 \o <<":">> \o T6>>),
     NmcliEnv(OneNmcli \o <<Escape(NameColon) \o <<":">> \o Escape(AddrLower)
                             \o <<":">> \o T150 \o <<":">> \o T6>>),
     NmcliEnv(<<>>),
     IwlistEnv(OneCell),
     IwlistEnv(OneCell \o <<[k |-> "Signal", form |-> "ratio", neg |-> FALSE,
                            num |-> <<"5">>, den |-> <<"0">>]>>),
     [NmcliEnv(<<>>) EXCEPT !.list = Failed("CalledProcessError")],
     [NmcliEnv(<<>>) EXCEPT !.list = Failed("PermissionError")]}
WindowsRunEnvs ==
    {Completed(<<[k |-> "BSSID", addr |-> AddrUpper],
                 [k |-> "BSSID", addr |-> AddrLower],
                 [k |-> "Signal", num |-> T80]>>),
     Completed(<<>>), Failed("CalledProcessError"),
     Failed("FileNotFoundError")}
TermuxRunEnvs ==
    {[exc |-> "none", returncode |-> 0, out |-> j] :
        j \in {[j |-> "array", items |-> <<>>],
               [j |-> "array",
                items |-> <<[bssid |-> PyStr(AddrUpper), rssi |-> PyInt(-60)],
                            [bssid |-> PyStr(AddrLower), rssi |-> PyInt(-20)]>>],
               [j |-> "array", items |-> <<[bssid |-> None]>>],
               [j |-> "object", keys |-> {"error"}],
               [j |-> "object", keys |-> {"API_ERROR"}]}}
    \cup {[exc |-> "TimeoutExpired", returncode |-> 0,
           out |-> [j |-> "invalid"]]}
RunEnvs(p) ==
    CASE p = "linux" -> LinuxRunEnvs
      [] p = "windows" -> WindowsRunEnvs
      [] p = "termux" -> TermuxRunEnvs

Init ==
    /\ platform \in {"linux", "windows", "termux"}
    /\ mqtt \in BOOLEAN
    /\ once \in BOOLEAN
    /\ pc = "main"
    /\ exc = "none"
    /\ exitCode = -1
    /\ connected = FALSE
    /\ loopRunning = FALSE
    /\ loopStarts = 0
    /\ loopStops = 0
    /\ disconnects = 0
    /\ connack = "none"
    /\ connectFailed = FALSE
    /\ capabilityMissing = FALSE
    /\ scans = 0
    /\ waits = 0
    /\ interrupts = 0
    /\ env = NoEnv
    /\ scan = NoScan
    /\ networks = <<>>
    /\ published = <<>>
    /\ diag = {}
    /\ listed = <<>>

\* sys.exit(code), or the interpreter ending on an uncaught exception
Exit(code) == pc' = "exit" /\ exitCode' = code

\* main: the Termux API check, then the choice of mode
Main ==
    /\ pc = "main"
    /\ \E apiOk \in BOOLEAN :
          IF platform = "termux" /\ ~apiOk
          THEN /\ Exit(1)
               /\ capabilityMissing' = TRUE
               /\ diag' = diag \cup {"Error: termux-api not found!"}
          ELSE /\ (platform = "termux" \/ apiOk)
               /\ pc' = IF mqtt THEN "import" ELSE "plain_scan"
               /\ UNCHANGED <<exitCode, capabilityMissing, diag>>
    /\ UNCHANGED <<platform, mqtt, once, exc, connected, loopRunning,
                   loopStarts, loopStops, disconnects, connack, connectFailed,
                   scans, waits, interrupts, env, scan, networks, published,
                   listed>>

\* the plain scan mode: get_wifi_bssids inside main's try
PlainScan ==
    /\ pc = "plain_scan"
    /\ \E en \in RunEnvs(platform) :
          LET r == get_wifi_bssids(platform, en)
          IN  /\ env' = en
              /\ scan' = r
              /\ scans' = scans + 1
              /\ IF r.exc = "none"
                 THEN /\ networks' = r.nets
                      /\ pc' = "print"
                      /\ UNCHANGED <<exitCode, exc, diag>>
                 ELSE IF MainCatches(platform, r.exc)
                 THEN /\ Exit(1)
                      /\ diag' = diag \cup {"Error"}
                      /\ UNCHANGED <<networks, exc>>
                 ELSE /\ Exit(1)
                      /\ exc' = r.exc
                      /\ diag' = diag \cup {"Traceback"}
                      /\ UNCHANGED networks
    /\ UNCHANGED <<platform, mqtt, once, connected, loopRunning, loopStarts,
                   loopStops, disconnects, connack, connectFailed,
                   capabilityMissing, waits, interrupts, published, listed>>

\* print_networks(networks), then main returns
PrintNetworks ==
    /\ pc = "print"
    /\ LET r == print_networks(platform, networks)
       IN  /\ networks' = r.nets
           /\ listed' = r.listed
           /\ exc' = IF r.exc = "none" THEN exc ELSE r.exc
           /\ diag' = IF networks = <<>>
                      THEN diag \cup {"No WiFi networks found."}
                      ELSE IF r.exc = "none" THEN diag
                      ELSE diag \cup {"Traceback"}
           /\ Exit(IF r.exc = "none" THEN 0 ELSE 1)
    /\ UNCHANGED <<platform, mqtt, once, connected, loopRunning, loopStarts,
                   loopStops, disconnects, connack, connectFailed,
                   capabilityMissing, scans, waits, interrupts, env, scan,
                   published>>

(* ======================= run_mqtt_publisher ============================ *)
\* import paho.mqtt.client
ImportPaho ==
    /\ pc = "import"
    /\ \E ok \in BOOLEAN :
          IF ok
          THEN /\ pc' = "connect"
               /\ UNCHANGED <<exitCode, capabilityMissing, diag>>
          ELSE /\ Exit(1)
               /\ capabilityMissing' = TRUE
               /\ diag' = diag \cup {"Error: paho-mqtt not installed"}
    /\ UNCHANGED <<platform, mqtt, once, exc, connected, loopRunning,
                   loopStarts, loopStops, disconnects, connack, connectFailed,
                   scans, waits, interrupts, env, scan, networks, published,
                   listed>>

\* client.connect(broker, port, 60): returns, or raises an Exception
Connect ==
    /\ pc = "connect"
    /\ \E ok \in BOOLEAN :
          IF ok
          THEN /\ connected' = TRUE
               /\ pc' = "loop_start"
               /\ UNCHANGED <<exitCode, connectFailed, diag>>
          ELSE /\ Exit(1)
               /\ connectFailed' = TRUE
               /\ diag' = diag \cup {"Failed to connect"}
               /\ UNCHANGED connected
    /\ UNCHANGED <<platform, mqtt, once, exc, loopRunning, loopStarts,
                   loopStops, disconnects, connack, capabilityMissing, scans,
                   waits, interrupts, env, scan, networks, published, listed>>

\* client.loop_start(): the background delivery thread runs from here on
LoopStart ==
    /\ pc = "loop_start"
    /\ loopRunning' = TRUE
    /\ loopStarts' = loopStarts + 1
    /\ pc' = "enter_try"
    /\ UNCHANGED <<platform, mqtt, once, exc, exitCode, connected, loopStops,
                   disconnects, connack, connectFailed, capabilityMissing,
                   scans, waits, interrupts, env, scan, networks, published,
                   diag, listed>>

\* control enters the try block around `while True`
EnterTry ==
    /\ pc = "enter_try"
    /\ pc' = "scan"
    /\ UNCHANGED <<platform, mqtt, once, exc, exitCode, connected, loopRunning,
                   loopStarts, loopStops, disconnects, connack, connectFailed,
                   capabilityMissing, scans, waits, interrupts, env, scan,
                   networks, published, diag, listed>>

\* on_connect, called by the background thread with the broker's answer
OnConnect ==
    /\ loopRunning
    /\ connack = "none"
    /\ \E accepted \in BOOLEAN :
          /\ connack' = IF accepted THEN "accepted" ELSE "refused"
          /\ diag' = diag \cup {IF accepted THEN "Connected to MQTT broker"
                                ELSE "Connection failed with code"}
    /\ UNCHANGED <<platform, mqtt, once, pc, exc, exitCode, connected,
                   loopRunning, loopStarts, loopStops, disconnects,
                   connectFailed, capabilityMissing, scans, waits, interrupts,
                   env, scan, networks, published, listed>>

\* networks = get_wifi_bssids() inside the cycle's try
Scan ==
    /\ pc = "scan"
    /\ scans < MaxCycles
    /\ \E en \in RunEnvs(platform) :
          LET r == get_wifi_bssids(platform, en)
          IN  /\ env' = en
              /\ scan' = r
              /\ scans' = scans + 1
              /\ IF r.exc = "none"
                 THEN /\ networks' = r.nets
                      /\ pc' = "publish"
                      /\ UNCHANGED <<exc, diag>>
                 ELSE IF LoopCatches(platform, r.exc)
                 THEN /\ pc' = "check_once"
                      /\ diag' = diag \cup {"Scan error"}
                      /\ UNCHANGED <<networks, exc>>
                 ELSE /\ pc' = "loop_stop"      \* leaves through finally
                      /\ exc' = r.exc
                      /\ UNCHANGED <<networks, diag>>
    /\ UNCHANGED <<platform, mqtt, once, exitCode, connected, loopRunning,
                   loopStarts, loopStops, disconnects, connack, connectFailed,
                   capabilityMissing, waits, interrupts, published, listed>>

\* build the payload, client.publish(topic, json, qos=1), print the summary
Publish ==
    /\ pc = "publish"
    /\ published' = Append(published, Envelope(platform, networks))
    /\ pc' = "check_once"
    /\ UNCHANGED <<platform, mqtt, once, exc, exitCode, connected, loopRunning,
                   loopStarts, loopStops, disconnects, connack, connectFailed,
                   capabilityMissing, scans, waits, interrupts, env, scan,
                   networks, diag, listed>>

\* if args.once: break
CheckOnce ==
    /\ pc = "check_once"
    /\ pc' = IF once THEN "loop_stop" ELSE "sleep"
    /\ UNCHANGED <<platform, mqtt, once, exc, exitCode, connected, loopRunning,
                   loopStarts, loopStops, disconnects, connack, connectFailed,
                   capabilityMissing, scans, waits, interrupts, env, scan,
                   networks, published, diag, listed>>

\* time.sleep(args.interval)
Sleep ==
    /\ pc = "sleep"
    /\ waits' = waits + 1
    /\ pc' = "scan"
    /\ UNCHANGED <<platform, mqtt, once, exc, exitCode, connected, loopRunning,
                   loopStarts, loopStops, disconnects, connack, connectFailed,
                   capabilityMissing, scans, interrupts, env, scan, networks,
                   published, diag, listed>>

InTry == {"scan", "publish", "check_once", "sleep"}

\* KeyboardInterrupt raised at the current position
Interrupt ==
    /\ pc \notin {"exit", "call", "returned"}
    /\ interrupts < MaxInterrupts
    /\ interrupts' = interrupts + 1
    /\ IF pc \in InTry
       THEN /\ pc' = "stopping"          \* except KeyboardInterrupt
            /\ UNCHANGED <<exc, exitCode>>
       ELSE IF pc = "stopping"
       THEN /\ pc' = "loop_stop"         \* the finally block still runs
            /\ exc' = "KeyboardInterrupt"
            /\ UNCHANGED exitCode
       ELSE /\ Exit(130)                 \* no handler, no finally left
            /\ exc' = "KeyboardInterrupt"
    /\ UNCHANGED <<platform, mqtt, once, connected, loopRunning, loopStarts,
                   loopStops, disconnects, connack, connectFailed,
                   capabilityMissing, scans, waits, env, scan, networks,
                   published, diag, listed>>

\* print("\nStopping...")
Stopping ==
    /\ pc = "stopping"
    /\ diag' = diag \cup {"Stopping..."}
    /\ pc' = "loop_stop"
    /\ UNCHANGED <<platform, mqtt, once, exc, exitCode, connected, loopRunning,
                   loopStarts, loopStops, disconnects, connack, connectFailed,
                   capabilityMissing, scans, waits, interrupts, env, scan,
                   networks, published, listed>>

\* finally: client.loop_stop()
LoopStop ==
    /\ pc = "loop_stop"
    /\ loopRunning' = FALSE
    /\ loopStops' = loopStops + 1
    /\ pc' = "disconnect"
    /\ UNCHANGED <<platform, mqtt, once, exc, exitCode, connected, loopStarts,
                   disconnects, connack, connectFailed, capabilityMissing,
                   scans, waits, interrupts, env, scan, networks, published,
                   diag, listed>>

\* finally: client.disconnect(); print("Disconnected")
Disconnect ==
    /\ pc = "disconnect"
    /\ connected' = FALSE
    /\ disconnects' = disconnects + 1
    /\ diag' = diag \cup {"Disconnected"}
    /\ pc' = "return"
    /\ UNCHANGED <<platform, mqtt, once, exc, exitCode, loopRunning,
                   loopStarts, loopStops, connack, connectFailed,
                   capabilityMissing, scans, waits, interrupts, env, scan,
                   networks, published, listed>>

\* run_mqtt_publisher returns to main, or the pending exception ends the
\* interpreter
Return ==
    /\ pc = "return"
    /\ Exit(IF exc = "none" THEN 0
            ELSE IF exc = "KeyboardInterrupt" THEN 130 ELSE 1)
    /\ diag' = IF exc = "none" THEN diag ELSE diag \cup {"Traceback"}
    /\ UNCHANGED <<platform, mqtt, once, exc, connected, loopRunning,
                   loopStarts, loopStops, disconnects, connack, connectFailed,
                   capabilityMissing, scans, waits, interrupts, env, scan,
                   networks, published, listed>>

Next ==
    \/ Main \/ PlainScan \/ PrintNetworks
    \/ ImportPaho \/ Connect \/ LoopStart \/ EnterTry \/ OnConnect
    \/ Scan \/ Publish \/ CheckOnce \/ Sleep
    \/ Interrupt \/ Stopping \/ LoopStop \/ Disconnect \/ Return

Spec == Init /\ [][Next]_vars

(* ======================= one scan call ================================= *)
\* the scan is run once on every bounded tool environment
InitScan ==
    /\ platform \in {"linux", "windows", "termux"}
    /\ env \in Envs(platform)
    /\ scan = NoScan
    /\ pc = "call"
    /\ mqtt = FALSE /\ once = TRUE /\ exc = "none" /\ exitCode = -1
    /\ connected = FALSE /\ loopRunning = FALSE /\ loopStarts = 0
    /\ loopStops = 0 /\ disconnects = 0 /\ connack = "none"
    /\ connectFailed = FALSE /\ capabilityMissing = FALSE /\ scans = 0
    /\ waits = 0 /\ interrupts = 0 /\ networks = <<>> /\ published = <<>>
    /\ diag = {}
    /\ listed = <<>>

CallScan ==
    /\ pc = "call"
    /\ scan' = get_wifi_bssids(platform, env)
    /\ networks' = scan'.nets
    /\ exc' = scan'.exc
    /\ scans' = scans + 1
    /\ pc' = "returned"
    /\ UNCHANGED <<platform, mqtt, once, exitCode, connected, loopRunning,
                   loopStarts, loopStops, disconnects, connack, connectFailed,
                   capabilityMissing, waits, interrupts, env, published, diag,
                   listed>>

\* print_networks on the list the scan returned
PrintCall ==
    /\ pc = "returned" /\ scan.exc = "none"
    /\ LET r == print_networks(platform, networks)
       IN  /\ networks' = r.nets
           /\ listed' = r.listed
           /\ exc' = r.exc
    /\ pc' = "printed"
    /\ UNCHANGED <<platform, mqtt, once, exitCode, connected, loopRunning,
                   loopStarts, loopStops, disconnects, connack, connectFailed,
                   capabilityMissing, scans, waits, interrupts, env, scan,
                   published, diag>>

NextScan == CallScan \/ PrintCall

SpecScan == InitScan /\ [][NextScan]_vars

(* ================= the Termux normalizers, called alone ================ *)
Margin == 3     \* how far the inputs reach beyond each range's ends

\* integer rssi values around and inside the interpolation range
RssiInputs == (-90 - Margin)..(-30 + Margin)

\* integer frequencies around and inside the three bands, and between them
FreqInputs ==
    ((2412 - Margin)..(2484 + Margin))
    \cup ((5170 - Margin)..(5825 + Margin))
    \cup ((5955 - Margin)..(7115 + Margin))
    \cup {-1, 0, 3000}

InitNorm ==
    /\ platform = "termux"
    /\ env \in {[fn |-> "dbm_to_percent", arg |-> PyInt(r)] : r \in RssiInputs}
           \cup {[fn |-> "freq_to_channel", arg |-> PyInt(f)] :
                    f \in FreqInputs}
    /\ scan = [exc |-> "unset", val |-> None]
    /\ pc = "call"
    /\ mqtt = FALSE /\ once = TRUE /\ exc = "none" /\ exitCode = -1
    /\ connected = FALSE /\ loopRunning = FALSE /\ loopStarts = 0
    /\ loopStops = 0 /\ disconnects = 0 /\ connack = "none"
    /\ connectFailed = FALSE /\ capabilityMissing = FALSE /\ scans = 0
    /\ waits = 0 /\ interrupts = 0 /\ networks = <<>> /\ published = <<>>
    /\ diag = {}
    /\ listed = <<>>

CallDbm ==
    /\ pc = "call" /\ env.fn = "dbm_to_percent"
    /\ scan' = dbm_to_percent(env.arg)
    /\ exc' = scan'.exc
    /\ pc' = "returned"
    /\ UNCHANGED <<platform, mqtt, once, exitCode, connected, loopRunning,
                   loopStarts, loopStops, disconnects, connack, connectFailed,
                   capabilityMissing, scans, waits, interrupts, env, networks,
                   published, diag, listed>>

CallFreq ==
    /\ pc = "call" /\ env.fn = "freq_to_channel"
    /\ scan' = freq_to_channel(env.arg)
    /\ exc' = scan'.exc
    /\ pc' = "returned"
    /\ UNCHANGED <<platform, mqtt, once, exitCode, connected, loopRunning,
                   loopStarts, loopStops, disconnects, connack, connectFailed,
                   capabilityMissing, scans, waits, interrupts, env, networks,
                   published, diag, listed>>

NextNorm == CallDbm \/ CallFreq

SpecNorm == InitNorm /\ [][NextNorm]_vars

(* ============================ claims ================================== *)
\* the run got past a successful connect
PastConnect == connected \/ disconnects > 0

\* C1: however a run that got past a successful connect ends, the
\* background delivery has been stopped and the connection disconnected
\* exactly once, and the background delivery was started before the first
\* publish.
C1_CleanupOnEveryExit ==
    /\ (published # <<>> => loopStarts = 1)
    /\ (pc = "exit" /\ PastConnect) =>
          (loopStops = 1 /\ disconnects = 1 /\ ~connected /\ ~loopRunning)

\* C2: in continuous mode a scan that fails is reported and the loop goes on
\* to the once-check and the wait; no scan failure leaves the loop.
C2_ScanFailureContinues ==
    [][(pc = "scan" /\ mqtt /\ ~once /\ scans' = scans + 1
        /\ scan'.exc # "none")
       => (pc' = "check_once" /\ "Scan error" \in diag')]_vars

\* C3: a single-shot publish run makes exactly one scan attempt, at most one
\* publish and no wait; a continuous run never leaves the loop by itself and
\* has exactly one wait between two consecutive scan attempts.
C3_LoopModes ==
    /\ (mqtt /\ once /\ pc = "return" /\ interrupts = 0) =>
          (scans = 1 /\ Len(published) <= 1 /\ waits = 0)
    /\ (mqtt /\ ~once /\ pc \in {"loop_stop", "disconnect", "return"}) =>
          interrupts > 0
    /\ (mqtt /\ ~once /\ pc = "scan") => waits = scans
    /\ (mqtt /\ ~once /\ pc \in {"publish", "check_once", "sleep"}) =>
          waits = scans - 1

\* a scan call has returned a list
Returned == pc = "returned" /\ scan.exc = "none"

\* C4: every record a parser returns has a known, non-empty bssid.
C4_EveryRecordHasBssid ==
    Returned =>
       \A i \in 1..Len(scan.nets) :
          /\ "bssid" \in DOMAIN scan.nets[i]
          /\ scan.nets[i].bssid.t = "str"
          /\ scan.nets[i].bssid.v # <<>>

\* C5: the signal of every record a parser returns is absent or an integer
\* in 0..100.
C5_SignalInRange ==
    Returned =>
       \A i \in 1..Len(scan.nets) :
          LET sv == Get(scan.nets[i], "signal", None)
          IN  sv = None \/ (sv.t = "int" /\ sv.v >= 0 /\ sv.v <= 100)

RECURSIVE IdentifierAddrs(_)
\* the addresses of the netsh identifier lines that parse, in input order
IdentifierAddrs(lines) ==
    IF lines = <<>> THEN <<>>
    ELSE (IF Head(lines).k = "BSSID" /\ Head(lines).addr # <<>>
          THEN <<Head(lines).addr>> ELSE <<>>)
         \o IdentifierAddrs(Tail(lines))

\* the number of parsable identifier lines among the first n lines
IdentifiersUpTo(lines, n) == Len(IdentifierAddrs(SubSeq(lines, 1, n)))

\* C6: the netsh parser returns exactly one record per identifier line with
\* a parsable address, in input order, each carrying its line's address (in
\* lower case); two consecutive identifier lines give two records with the
\* same ssid.
C6_OneRecordPerIdentifier ==
    (Returned /\ platform = "windows") =>
       LET lines == env.stdout
           addrs == IdentifierAddrs(lines)
       IN  /\ Len(scan.nets) = Len(addrs)
           /\ \A i \in 1..Len(addrs) :
                 scan.nets[i].bssid = PyStr(Lower(addrs[i]))
           /\ \A n \in 1..(Len(lines) - 1) :
                 (/\ lines[n].k = "BSSID" /\ lines[n].addr # <<>>
                  /\ lines[n + 1].k = "BSSID" /\ lines[n + 1].addr # <<>>)
                 => LET r == IdentifiersUpTo(lines, n)
                    IN  Get(scan.nets[r], "ssid", None)
                          = Get(scan.nets[r + 1], "ssid", None)

\* C6 witness: an SSID line followed by two identifier lines with different
\* addresses has given two records with that ssid and different bssids.
C6_Witness ==
    /\ Returned /\ platform = "windows"
    /\ env.stdout = <<[k |-> "SSID", name |-> NameNet],
                      [k |-> "BSSID", addr |-> AddrUpper],
                      [k |-> "BSSID", addr |-> AddrLower]>>
    /\ Len(scan.nets) = 2
    /\ scan.nets[1].ssid = PyStr(NameNet) /\ scan.nets[2].ssid = PyStr(NameNet)
    /\ scan.nets[1].bssid = PyStr(Lower(AddrUpper))
    /\ scan.nets[2].bssid = PyStr(AddrLower)

\* the candidates of the Linux facade in their fixed order
Candidates == <<"nmcli", "wlan0", "wlp2s0", "wlp3s0", "wifi0">>

\* the candidates whose tool is installed, in that order
Available(e) ==
    SelectSeq(Candidates,
              LAMBDA c : IF c = "nmcli" THEN e.which_nmcli ELSE e.which_iwlist)

\* what candidate c does on its own in environment e
Outcome(e, c) ==
    IF c = "nmcli" THEN get_wifi_bssids_nmcli(e)
    ELSE get_wifi_bssids_iwlist(e.iw[c])

\* C7: the Linux facade invokes the installed candidates in the fixed order
\* nmcli, wlan0, wlp2s0, wlp3s0, wifi0, stops at the first one that
\* completes and returns its list, the empty list included: every candidate
\* invoked before the last one failed, none is invoked after one that
\* completed, and the search does not stop at one that exited non-zero.
C7_FirstCompletedWins ==
    (pc = "returned" /\ platform = "linux") =>
       LET av == Available(env)
           n == Len(scan.invoked)
       IN  /\ n <= Len(av) /\ scan.invoked = SubSeq(av, 1, n)
           /\ \A i \in 1..(n - 1) : Outcome(env, scan.invoked[i]).exc # "none"
           /\ (n < Len(av) =>
                 Outcome(env, av[n]).exc # "CalledProcessError")
           /\ (n > 0 /\ Outcome(env, scan.invoked[n]).exc = "none") =>
                 (scan.exc = "none"
                  /\ scan.nets = Outcome(env, scan.invoked[n]).nets)
           /\ scan.exc = "none" =>
                 (n > 0 /\ Outcome(env, scan.invoked[n]).exc = "none")

\* C7 witness: nmcli completed with the empty list while iwlist would have
\* found a network; the empty list is returned and iwlist is not invoked.
C7_Witness ==
    /\ Returned /\ platform = "linux"
    /\ env.which_nmcli /\ env.list = Completed(<<>>)
    /\ env.which_iwlist /\ env.iw["wlan0"] = Completed(OneCell)
    /\ scan.nets = <<>> /\ scan.invoked = <<"nmcli">>

\* C8: in the Linux facade every hard failure of a candidate's invocation
\* falls through to the next candidate, the call fails with RuntimeError
\* exactly when no installed candidate completes, and nothing else escapes.
C8_HardFailuresFallThrough ==
    (pc = "returned" /\ platform = "linux" /\ env \in FacadeEnvs
       /\ env.rescan # "PermissionError") =>
       LET av == Available(env)
       IN  /\ scan.exc \in {"none", "RuntimeError"}
           /\ scan.exc = "RuntimeError" <=>
                 \A i \in 1..Len(av) : Outcome(env, av[i]).exc # "none"

\* the scan of a single-shot run failed
SingleShot == ~mqtt \/ once
ScanFailed == scan.exc \notin {"unset", "none"}

\* C9: when the channel cannot connect (connect raises, or the broker
\* refuses), the run is fatal: from then on no scan is performed and nothing
\* is published, a diagnostic has been printed and the exit code is 1.
C9_ConnectFailureFatal ==
    /\ [][(connectFailed \/ connack = "refused")
          => (scans' = scans /\ published' = published)]_vars
    /\ []((connectFailed \/ connack = "refused") =>
            /\ diag \cap {"Failed to connect", "Connection failed with code"}
                 # {}
            /\ (pc = "exit" /\ interrupts = 0) => exitCode = 1)

\* C10: a run that is neither interrupted nor ended by an uncaught
\* exception exits with 1 exactly when a required capability is missing,
\* the channel fails to connect, or the scan of a single-shot run (plain
\* scan mode, or publish mode with the once flag) fails; otherwise with 0.
C10_ExitCode ==
    (pc = "exit" /\ interrupts = 0 /\ exc = "none") =>
       /\ exitCode \in {0, 1}
       /\ exitCode = 1 <=>
             (capabilityMissing \/ connectFailed \/ (SingleShot /\ ScanFailed))

\* C11: every record a parser returns has a non-empty ssid (the sentinel
\* "<Hidden>" when the tool reported no name or an empty one).
C11_SsidNeverEmpty ==
    Returned =>
       \A i \in 1..Len(scan.nets) :
          /\ "ssid" \in DOMAIN scan.nets[i]
          /\ scan.nets[i].ssid.t = "str"
          /\ scan.nets[i].ssid.v # <<>>

\* the Termux tool ran, exited with 0 and printed the JSON text of shape j
TermuxPrinted(j) ==
    /\ platform = "termux" /\ pc \in {"returned", "printed"}
    /\ env.exc = "none" /\ env.returncode = 0 /\ env.out.j = j

\* C12: when the Termux tool prints a JSON object instead of an array, the
\* scan fails with RuntimeError and never returns a list.
C12_ObjectIsFailure == TermuxPrinted("object") => scan.exc = "RuntimeError"

\* the tool ran successfully and printed nothing
EmptyOutput ==
    /\ pc \in {"returned", "printed"}
    /\ CASE platform = "linux" -> env \in {NmcliEnv(<<>>), IwlistEnv(<<>>)}
         [] platform = "windows" -> env = Completed(<<>>)
         [] platform = "termux" ->
               env.exc = "none" /\ env.returncode = 0 /\ env.out.j = "empty"

\* C13: empty tool output gives an empty ScanResult and not a failure, in
\* each of the formats.
C13_EmptyOutputEmptyResult ==
    EmptyOutput => (scan.exc = "none" /\ scan.nets = <<>>)

\* four field texts (name, identifier, signal, channel) as nmcli prints them
NmcliJoin(f) ==
    Escape(f[1]) \o <<":">> \o Escape(f[2]) \o <<":">> \o f[3] \o <<":">>
    \o f[4]
FourFields ==
    {NameColon, Placeholder} \X {AddrUpper, AddrLower} \X {T80, T150} \X {T6}

\* C14: a terse nmcli line of four fields, the colons inside the name and
\* the identifier escaped, gives exactly one record: ssid and bssid are the
\* field texts with the colons restored (the identifier in lower case),
\* signal and channel the numbers of the third and fourth fields.
C14_EscapedColonRoundTrip ==
    \A f \in FourFields :
       (platform = "linux" /\ pc \in {"returned", "printed"}
        /\ env = NmcliEnv(<<NmcliJoin(f)>>))
       => /\ scan.exc = "none"
          /\ scan.nets = << [ssid |-> PyStr(f[1]),
                             bssid |-> PyStr(Lower(f[2])),
                             signal |-> PyInt(ToInt(f[3])),
                             channel |-> PyInt(ToInt(f[4]))] >>

\* the normalizer fn has returned
NormReturned(fn) == pc = "returned" /\ env.fn = fn

\* C15: dbm_to_percent gives 100 from -30 up, 0 from -90 down, and between
\* them 100*(rssi+90)/60 truncated; the result is within 0..100, never
\* decreases as rssi grows, grows strictly inside the range, and is 50 at
\* -60.
C15_DbmToPercent ==
    NormReturned("dbm_to_percent") =>
       LET r == env.arg.v
           v == scan.val.v
           below == dbm_to_percent(PyInt(r - 1)).val.v
       IN  /\ scan.exc = "none" /\ scan.val.t = "int"
           /\ (r >= -30 => v = 100)
           /\ (r <= -90 => v = 0)
           /\ (-90 < r /\ r < -30 =>
                 (60 * v <= 100 * (r + 90) /\ 100 * (r + 90) < 60 * (v + 1)))
           /\ 0 <= v /\ v <= 100
           /\ below <= v
           /\ (-90 < r /\ r < -30 => below < v)
           /\ (r = -60 => v = 50)

C15_Witness ==
    NormReturned("dbm_to_percent") /\ env.arg.v = -60 /\ scan.val = PyInt(50)

\* C16: freq_to_channel gives 14 for 2484, (f-2412) div 5 + 1 for the rest
\* of 2412..2484, (f-5170) div 5 + 34 in 5170..5825, (f-5955) div 5 + 1 in
\* 5955..7115, and absent, without an error, for every other integer.
C16_FreqToChannel ==
    NormReturned("freq_to_channel") =>
       LET f == env.arg.v
           c == scan.val
           \* c is the integer n with n = (f - base) div 5 + first
           Is(base, first) ==
              /\ c.t = "int"
              /\ 5 * (c.v - first) <= f - base
              /\ f - base < 5 * (c.v - first + 1)
       IN  /\ scan.exc = "none"
           /\ CASE f = 2484 -> c = PyInt(14)
                [] 2412 <= f /\ f < 2484 -> Is(2412, 1)
                [] 5170 <= f /\ f <= 5825 -> Is(5170, 34)
                [] 5955 <= f /\ f <= 7115 -> Is(5955, 1)
                [] OTHER -> c = None
           /\ (f = 2412 => c = PyInt(1))
           /\ (f = 2485 => c = None)
           /\ (f = 5180 => c = PyInt(36))
           /\ (f = 5955 => c = PyInt(1))
           /\ (f = 3000 => c = None)

C16_Witness ==
    NormReturned("freq_to_channel") /\ env.arg.v = 2484 /\ scan.val = PyInt(14)

\* the signal a record is placed by: its number, 0 when it has none
PlacedBy(net) ==
    IF "signal" \in DOMAIN net /\ net.signal.t = "int" THEN net.signal.v
    ELSE 0

\* the records of nets placed by k, in the order they have in nets
WithSignal(nets, k) == SelectSeq(nets, LAMBDA net : PlacedBy(net) = k)

\* C17: print_networks puts the records in descending signal order,
\* records of equal signal in their input order, a record without a signal
\* placed as if its signal were 0, and lists them in that order.
C17_ListedDescendingStable ==
    pc = "printed" =>
       /\ Len(networks) = Len(scan.nets)
       /\ \A i \in 1..(Len(networks) - 1) :
             PlacedBy(networks[i]) >= PlacedBy(networks[i + 1])
       /\ \A i \in 1..Len(scan.nets) :
             WithSignal(networks, PlacedBy(scan.nets[i]))
                = WithSignal(scan.nets, PlacedBy(scan.nets[i]))
       /\ Len(listed) <= Len(networks)
       /\ listed = SubSeq(networks, 1, Len(listed))
       /\ (exc = "none" => listed = networks)

\* two records were listed in an order that differs from the scan's, one of
\* them without a signal
C17_Witness ==
    /\ pc = "printed" /\ exc = "none"
    /\ Len(listed) = 2 /\ listed # scan.nets
    /\ \E i \in 1..2 : "signal" \notin DOMAIN listed[i]

\* the tool ran and printed a list of entries: nmcli or iwlist lines, netsh
\* lines, a JSON array of objects
PrintedEntries ==
    /\ pc \in {"returned", "printed"}
    /\ CASE platform = "linux" ->
              /\ env.rescan = "ok"
              /\ \/ env.which_nmcli /\ env.list.exc = "none"
                 \/ ~env.which_nmcli /\ env.which_iwlist
                    /\ env.iw.wlan0.exc = "none"
         [] platform = "windows" -> env.exc = "none"
         [] platform = "termux" ->
              /\ env.exc = "none" /\ env.returncode = 0
              /\ env.out.j = "array"
              /\ \A i \in 1..Len(env.out.items) :
                    "t" \notin DOMAIN env.out.items[i]

\* C18: no parser raises because of a bad field of an entry (a ratio signal
\* with denominator 0, a null rssi or bssid, a non-numeric signal or
\* channel): the scan returns normally.
C18_BadFieldNeverRaises == PrintedEntries => scan.exc = "none"

\* the iwlist lines 'Signal level=<dBm> dBm' of the bounded inputs
DbmLines == {ln \in IwlistLines : ln.k = "Signal" /\ ln.form = "dbm"}
DbmOf(ln) == IF ln.neg THEN 0 - ToInt(ln.num) ELSE ToInt(ln.num)

\* C19: the signal the iwlist parser derives from 'Signal level=<dBm> dBm'
\* equals dbm_to_percent(dBm) of the Termux parser.
C19_SameDbmConversion ==
    \A ln \in DbmLines :
       (platform = "linux" /\ pc \in {"returned", "printed"}
        /\ env = IwlistEnv(OneCell \o <<ln>>))
       => /\ scan.exc = "none" /\ Len(scan.nets) = 1
          /\ "signal" \in DOMAIN scan.nets[1]
          /\ scan.nets[1].signal = dbm_to_percent(PyInt(DbmOf(ln))).val

\* netsh line i is an identifier line that parses
IsIdentifier(lines, i) == lines[i].k = "BSSID" /\ lines[i].addr # <<>>

\* line i is an identifier line seen while the accumulator holds the
\* identifier of an earlier line of the same network
SecondIdentifier(lines, i) ==
    /\ IsIdentifier(lines, i)
    /\ \E j \in 1..(i - 1) :
          /\ IsIdentifier(lines, j)
          /\ \A m \in (j + 1)..(i - 1) : lines[m].k # "SSID"

\* a line of kind k with a number follows line i before the next identifier
\* or network line
HasOwn(lines, i, k) ==
    \E j \in (i + 1)..Len(lines) :
       /\ lines[j].k = k /\ lines[j].num # <<>>
       /\ \A m \in (i + 1)..(j - 1) :
             ~IsIdentifier(lines, m) /\ lines[m].k # "SSID"

\* C20: in the netsh parser the record of an access point whose identifier
\* line is seen while the accumulator already holds an identifier carries
\* only the signal and channel of the lines after its own identifier line.
C20_NoInheritedSignal ==
    (platform = "windows" /\ pc \in {"returned", "printed"}
     /\ env.exc = "none") =>
       \A i \in 1..Len(env.stdout) :
          SecondIdentifier(env.stdout, i) =>
             LET r == Cardinality({j \in 1..i : IsIdentifier(env.stdout, j)})
             IN  /\ r <= Len(scan.nets)
                 /\ ("signal" \in DOMAIN scan.nets[r]
                       => HasOwn(env.stdout, i, "Signal"))
                 /\ ("channel" \in DOMAIN scan.nets[r]
                       => HasOwn(env.stdout, i, "Channel"))

\* C21: print_networks leaves the list it is given unchanged: after the call
\* the list holds the same records in the same scan-tool order.
C21_PrintLeavesListUnchanged == pc = "printed" => networks = scan.nets

\* C22: in get_wifi_bssids_nmcli the rescan trigger comes before the list
\* command (a trigger that cannot be launched ends the scan whatever the
\* list would give), and after a trigger that succeeded, exited non-zero or
\* timed out the list command is run and parsed: the scan's result is the
\* one a successful trigger gives, the parsed list when the list command
\* completes.
C22_RescanNeverFatal ==
    (platform = "linux" /\ pc \in {"returned", "printed"} /\ env.which_nmcli)
    => /\ env.rescan \in {"ok", "nonzero", "TimeoutExpired"} =>
             /\ scan = get_wifi_bssids("linux", [env EXCEPT !.rescan = "ok"])
             /\ env.list.exc = "none" =>
                   /\ scan.exc = "none"
                   /\ scan.nets = ParseNmcli(env.list.stdout)
                   /\ scan.invoked = <<"nmcli">>
       /\ env.rescan = "PermissionError" =>
             (scan.exc = "PermissionError" /\ scan.invoked = <<"nmcli">>)

\* the trigger timed out and the list command's network was returned
C22_Witness ==
    /\ platform = "linux" /\ pc = "returned" /\ env.which_nmcli
    /\ env.rescan = "TimeoutExpired" /\ env.list = Completed(OneNmcli)
    /\ scan.exc = "none" /\ Len(scan.nets) = 1

\* the iwlist lines 'Signal level=n/d' of the bounded inputs with d > 0
RatioLines ==
    {ln \in IwlistLines :
        ln.k = "Signal" /\ ln.form = "ratio" /\ ToInt(ln.den) > 0}

\* C23: for a signal given as a ratio n/d with d > 0 the iwlist record's
\* signal is 100*n/d rounded to the nearest integer: it differs from
\* 100*n/d by at most one half.
C23_RatioRoundedToNearest ==
    \A ln \in RatioLines :
       (platform = "linux" /\ pc \in {"returned", "printed"}
        /\ env = IwlistEnv(OneCell \o <<ln>>))
       => LET n == ToInt(ln.num)
              d == ToInt(ln.den)
          IN  /\ scan.exc = "none" /\ Len(scan.nets) = 1
              /\ "signal" \in DOMAIN scan.nets[1]
              /\ scan.nets[1].signal.t = "int"
              /\ 2 * (100 * n - scan.nets[1].signal.v * d) <= d
              /\ 2 * (scan.nets[1].signal.v * d - 100 * n) <= d

\* one step of the publish loop, as C24 has it
C24_Step ==
    \* an envelope is published only by the publish step that follows a
    \* successful scan, and it holds that scan's records in scan-tool order
    /\ published' # published =>
          /\ pc = "publish" /\ scan.exc = "none"
          /\ Len(published') = Len(published) + 1
          /\ SubSeq(published', 1, Len(published)) = published
          /\ published'[Len(published')].networks = scan.nets
          /\ published'[Len(published')].count = Len(scan.nets)
    \* the loop leaves the publish step, unless interrupted, by publishing
    /\ (pc = "publish" /\ pc' # "publish" /\ interrupts' = interrupts) =>
          Len(published') = Len(published) + 1
    \* a cycle goes to the publish step exactly when its scan succeeded
    /\ (pc = "scan" /\ scans' = scans + 1) =>
          (pc' = "publish" <=> scan'.exc = "none")
    /\ (pc' = "publish" /\ pc # "publish") => pc = "scan"

\* C24: in every cycle of the publish loop exactly one envelope is published
\* if the cycle's scan succeeded and none if it failed; the envelope's count
\* is the number of records of its networks list, and networks is the
\* ScanResult in scan-tool order.
C24_OneEnvelopePerGoodScan ==
    /\ [][C24_Step]_vars
    /\ [](/\ Len(published) <= scans
          /\ \A i \in 1..Len(published) :
                published[i].count = Len(published[i].networks))

\* an envelope was published whose two records are in scan-tool order, which
\* is not the descending-signal order
C24_Witness ==
    /\ mqtt /\ Len(published) = 1 /\ pc = "check_once"
    /\ published[1].networks = scan.nets /\ published[1].count = 2
    /\ SortedBySignal(platform, scan.nets) # scan.nets

====
